---- MODULE Spec2Model ----
(***************************************************************************)
(* Model of the two orchestration procedures of cli/main.py:               *)
(*   - the `deploy contracts` command (deploy-all and deploy-single) with  *)
(*     its nested __deploy_contract and __collect_secret, and              *)
(*   - the `simulate start` command: contract bootstrap, swarm spawn loop, *)
(*     reactor and the teardown in its finally block.                      *)
(* One run of the program executes one of the two commands; the command    *)
(* and its command-line inputs are chosen in Init.  Every blocking call    *)
(* (a prompt, an external call on a Deployer, a process spawn) is one      *)
(* step of the program counter pc.                                         *)
(*                                                                         *)
(* The Deployer classes (nucypher.blockchain.eth.deployers) are not part   *)
(* of the sources at hand; their arm / deploy / make_agent are modelled    *)
(* from section 4.2 of the specification.                                  *)
(***************************************************************************)
EXTENDS Integers, Sequences, FiniteSets, TLC

VARIABLES
    cmd,                      \* "deploy" | "simulate": the command being run
    pc,                       \* position in the command
    exited,                   \* "no" while running, else how the program ended
    force,                    \* deploy: --force
    contract_name,            \* deploy: --contract-name ("None" when absent)
    idx,                      \* position in the loop over deployers / sim units
    cur,                      \* the unit __deploy_contract is working on
    secret,                   \* __collect_secret: secret
    secret_confirmation,      \* __collect_secret: secret_confirmation
    deployer_init_args,       \* __deployer_init_args (dependency handle, secret_hash)
    deployer,                 \* unit -> the Deployer object built for it
    deployment_transactions,  \* __deployment_transactions
    deployment_agents,        \* __deployment_agents
    last_arm,                 \* (is_armed) returned by the latest arm call
    calls,                    \* history of the calls made on Deployers
    federated_only,           \* simulate: config.federated_only
    nodes,                    \* simulate: --nodes
    sim_processes,            \* config.sim_processes
    alive,                    \* pids of the worker processes that are running
    spawned,                  \* pids spawned by this run, in spawn order
    prev_killed,              \* pids killed by the start-up clean-up
    everyone_else,            \* simulate: accounts after origin
    registry_file,            \* whether the simulation registry file exists
    commits,                  \* number of registry.commit calls
    kill_idx,                 \* position in the teardown loop
    prev,                     \* the processes tracked when the command started
    sim_agents,               \* simulate: sim_token_agent, sim_miner_agent, policy_agent
    run_result,               \* simulate: how reactor.run() ended
    min_stake, balance,       \* simulate: MIN_ALLOWED_LOCKED, DEVELOPMENT_TOKEN_AIRDROP_AMOUNT
    min_locktime, max_locktime, \* simulate: MIN_LOCKED_PERIODS, MAX_MINTING_PERIODS
    spawn_log,                \* simulate: the node parameters of every spawnProcess call
    stake,                    \* simulate: value, periods of the latest node
    signals,                  \* every os.kill / signalProcess call made
    process,                  \* simulate: the loop variable of the start-up clean-up
    prev_alive,               \* the tracked processes that ran when the command started
    starts,                   \* how many commands were started on this config object
    reported,                 \* deploy: units whose transactions were shown or saved
    failure_message           \* deploy: what the user is told about a failure

vars == <<cmd, pc, exited, force, contract_name, idx, cur, secret,
          secret_confirmation, deployer_init_args, deployer,
          deployment_transactions, deployment_agents, last_arm, calls,
          federated_only, nodes, sim_processes, alive, spawned, prev_killed,
          everyone_else, registry_file, commits, kill_idx, prev, sim_agents,
          run_result, min_stake, balance, min_locktime, max_locktime, spawn_log,
          stake, signals, process, prev_alive, starts, reported,
          failure_message>>

stakeConsts == <<min_stake, balance, min_locktime, max_locktime>>
swarmAux == <<spawn_log, stake>>
killAux == <<process, prev_alive, starts>>
reportAux == <<reported, failure_message>>

deployVars == <<force, contract_name, deployment_transactions, deployment_agents>>
simVars == <<federated_only, nodes, sim_processes, alive, spawned, prev_killed,
             everyone_else, registry_file, commits, kill_idx, prev>>

----------------------------------------------------------------------------
(* Bounds of the model *)

MaxNodes == 3          \* --nodes ranges over 0..MaxNodes
NumSecretValues == 2   \* distinct byte strings of each length
MaxStake == 2          \* the stake constants range over 1..MaxStake
MaxStarts == 2         \* simulate start commands on one config object
StakeValues == 1..MaxStake

----------------------------------------------------------------------------
(* Static data *)

None == "None"

\* DeployerInfo table of __get_deployers, in the order of the dict literal
Units == {"NucypherToken", "MinerEscrow", "PolicyManager"}

DeployersMutSwapped == <<"MinerEscrow", "NucypherToken", "PolicyManager">>

Deployers == <<"NucypherToken", "MinerEscrow", "PolicyManager">>

DeployerInfo(u) ==
    CASE u = "NucypherToken" -> [upgradeable |-> FALSE, agent_name |-> "token_agent",
                                  dependant |-> None]
      [] u = "MinerEscrow"   -> [upgradeable |-> TRUE, agent_name |-> "miner_agent",
                                  dependant |-> "token_agent"]
      [] u = "PolicyManager" -> [upgradeable |-> TRUE, agent_name |-> "policy_agent",
                                  dependant |-> "miner_agent"]

AgentNames == {DeployerInfo(u).agent_name : u \in Units}

\* the unit whose agent is registered under agent name a
UnitOfAgent(a) == CHOOSE u \in Units : DeployerInfo(u).agent_name = a

\* contract names a user may pass with --contract-name
ContractNames == Units \cup {None, "NoSuchContract"}

----------------------------------------------------------------------------
(* Byte strings, abstracted to a length and one of NumSecretValues contents *)

Bytes(n) == [len : {n}, val : 1..NumSecretValues]
NoSecret == [len |-> 0, val |-> 0]

SecretLength == 32

urandomMutShort(n) == Bytes(n - 1)

\* os.urandom(n)
urandom(n) == Bytes(n)

CopyOfMutOther(s) == [s EXCEPT !.val = (s.val % NumSecretValues) + 1]

\* secret[:]
CopyOf(s) == s

----------------------------------------------------------------------------
(* The Deployer of section 4.2 *)

NoDeployer == [state |-> "NONE", dependency |-> None, secret_hash |-> NoSecret,
               upgradeable |-> FALSE, needs |-> None]

\* deployer_class(**__deployer_init_args)
NewDeployer(u, args) ==
    [state |-> "UNARMED", dependency |-> args.dependency,
     secret_hash |-> args.secret_hash,
     upgradeable |-> DeployerInfo(u).upgradeable,
     needs |-> DeployerInfo(u).dependant]

\* SecretCommitment validity: both 32 bytes and equal
ValidCommitment(s, c) == s.len = 32 /\ c.len = 32 /\ s = c

\* The disqualifications arm collects.  addressSet is the Deployer's own
\* finding on whether a deployer address is set.
Disqualifications(d, addressSet) ==
    (IF addressSet THEN {} ELSE {"no deployer address"})
    \cup (IF d.upgradeable /\ ~ValidCommitment(d.secret_hash, d.secret_hash)
          THEN {"secret must be 32 bytes"} ELSE {})
    \cup (IF d.needs # None /\ d.dependency = None
          THEN {"dependency not deployed"} ELSE {})

\* arm: is_armed iff no disqualification; ARMED or ARM_FAILED
ArmedState(disq) == IF disq = {} THEN "ARMED" ELSE "ARM_FAILED"

\* the transactions deploy() returns for a unit, and the agent make_agent builds
TransactionsOf(u) == "txs of " \o u
AgentOf(u) == "agent of " \o u

----------------------------------------------------------------------------
(* Helpers of the deploy command *)

\* a call made on the Deployer of unit u, and whether it succeeded
Call(op, u, ok) == [op |-> op, unit |-> u, ok |-> ok]

Exit(how) == pc' = "exit" /\ exited' = how

NoArgs == [dependency |-> None, secret_hash |-> NoSecret]

PlanMutCascade(name) ==
    IF name = None THEN Deployers
    ELSE IF name = "MinerEscrow" THEN <<"NucypherToken", "MinerEscrow">>
    ELSE IF name = "PolicyManager" THEN Deployers
    ELSE <<name>>

\* the units the command hands to __deploy_contract, in order:
\* deployers[contract_name] alone, or every entry of deployers
Plan(name) == IF name = None THEN Deployers ELSE <<name>>

DependantLookupMutGet(agents, dependant) ==
    [found |-> TRUE, agent |-> agents[dependant]]

\* __deployment_agents[dependant]: KeyError when the key is absent
DependantLookup(agents, dependant) ==
    [found |-> agents[dependant] # None, agent |-> agents[dependant]]

AfterArmMutIgnore(is_armed, frc) == "confirm_deploy"

AfterArmMutForce(is_armed, frc) ==
    IF ~is_armed /\ ~frc THEN "abort" ELSE "confirm_deploy"

\* if not is_armed: ... raise click.Abort()
AfterArm(is_armed, frc) == IF ~is_armed THEN "abort" ELSE "confirm_deploy"

TransactionsAfterDeployMutEarly(txs, u, ok) ==
    [txs EXCEPT ![u] = IF ok THEN TransactionsOf(u) ELSE "pending"]

\* __transactions = __deployer.deploy(); __deployment_transactions[name] = ...
\* (the assignment is reached only when deploy() returns)
TransactionsAfterDeploy(txs, u, ok) ==
    IF ok THEN [txs EXCEPT ![u] = TransactionsOf(u)] ELSE txs

\* __deployment_agents[agent_name] = __agent
RegisterAgent(agents, u, agent) ==
    [agents EXCEPT ![DeployerInfo(u).agent_name] = agent]

CollectSecretOutcomeMutNoAbort(s, c, again1, again2) ==
    IF s.len # 32 /\ again1 THEN "retry"
    ELSE IF s # c /\ again2 THEN "retry"
    ELSE "collected"

\* the body of __collect_secret after the secret and its confirmation are
\* drawn; again1 and again2 are the truth values of the answers to the two
\* "Try again?" prompts.  A refused first prompt falls through to the
\* comparison of the secret with its confirmation.
CollectSecretOutcome(s, c, again1, again2) ==
    IF s.len # 32 /\ again1 THEN "retry"
    ELSE IF s # c THEN (IF again2 THEN "retry" ELSE "abort")
    ELSE "collected"

\* what the command has told the user about a failure: the unit and the reasons
NoFailure == [unit |-> None, reason |-> {}]

\* for contract_name, transactions in __deployment_transactions.items(): echo
\* json.dumps(__deployment_transactions)
Recorded(txs) == {u \in Units : txs[u] # None}

\* if not force and click.prompt(...) / click.confirm(...)
Shown(frc, answer) == ~frc /\ answer

----------------------------------------------------------------------------
(* The deploy command *)

\* if not config.deployer: Abort;  __get_deployers(): click.confirm("Continue?")
GetDeployers ==
    /\ cmd = "deploy" /\ pc = "get_deployers"
    /\ \E deployerFlag \in BOOLEAN, continue \in BOOLEAN :
         IF deployerFlag /\ continue
         THEN pc' = "dispatch" /\ UNCHANGED exited
         ELSE Exit("Abort")
    /\ UNCHANGED <<cmd, idx, cur, secret, secret_confirmation, deployer_init_args,
                   deployer, last_arm, calls, sim_agents, run_result>>
    /\ UNCHANGED deployVars /\ UNCHANGED simVars
    /\ UNCHANGED stakeConsts /\ UNCHANGED swarmAux /\ UNCHANGED killAux
    /\ UNCHANGED signals /\ UNCHANGED reportAux

\* if contract_name: deployers[contract_name] (KeyError is caught and echoed)
\* else: for deployer_name, deployer_info in deployers.items()
Dispatch ==
    /\ cmd = "deploy" /\ pc = "dispatch"
    /\ IF contract_name # None /\ contract_name \notin Units
       THEN pc' = "view" /\ UNCHANGED <<idx, cur>>
       ELSE /\ idx' = 1
            /\ cur' = Plan(contract_name)[1]
            /\ pc' = "init_args"
    /\ UNCHANGED <<cmd, exited, secret, secret_confirmation, deployer_init_args,
                   deployer, last_arm, calls, sim_agents, run_result>>
    /\ UNCHANGED deployVars /\ UNCHANGED simVars
    /\ UNCHANGED stakeConsts /\ UNCHANGED swarmAux /\ UNCHANGED killAux
    /\ UNCHANGED signals /\ UNCHANGED reportAux

\* __deploy_contract is entered for cur: __deployer_init_args and the lookup
\* of the dependant
InitArgs ==
    /\ cmd = "deploy" /\ pc = "init_args"
    /\ LET info == DeployerInfo(cur)
           got == DependantLookup(deployment_agents, info.dependant)
       IN  IF info.dependant # None /\ ~got.found
           THEN /\ Exit("KeyError") /\ UNCHANGED deployer_init_args
                /\ failure_message' = [unit |-> None, reason |-> {info.dependant}]
           ELSE /\ deployer_init_args' =
                      [NoArgs EXCEPT !.dependency =
                          IF info.dependant # None THEN got.agent ELSE None]
                /\ pc' = IF info.upgradeable THEN "collect_secret" ELSE "construct"
                /\ UNCHANGED <<exited, failure_message>>
    /\ calls' = Append(calls, Call("begin", cur, TRUE))
    /\ UNCHANGED <<cmd, idx, cur, secret, secret_confirmation, deployer, last_arm,
                   sim_agents, run_result>>
    /\ UNCHANGED deployVars /\ UNCHANGED simVars
    /\ UNCHANGED stakeConsts /\ UNCHANGED swarmAux /\ UNCHANGED killAux
    /\ UNCHANGED signals /\ UNCHANGED reported

\* __collect_secret(), one invocation (a retry is the next invocation)
CollectSecret ==
    /\ cmd = "deploy" /\ pc = "collect_secret"
    /\ \E s \in urandom(SecretLength), again1 \in BOOLEAN, again2 \in BOOLEAN :
         LET c == CopyOf(s)
             out == CollectSecretOutcome(s, c, again1, again2)
         IN  /\ secret' = s
             /\ secret_confirmation' = c
             /\ CASE out = "retry" ->
                       UNCHANGED <<pc, exited, deployer_init_args>>
                  [] out = "abort" ->
                       Exit("Abort") /\ UNCHANGED deployer_init_args
                  [] out = "collected" ->
                       /\ deployer_init_args' =
                             [deployer_init_args EXCEPT !.secret_hash = s]
                       /\ pc' = "construct"
                       /\ UNCHANGED exited
    /\ UNCHANGED <<cmd, idx, cur, deployer, last_arm, calls, sim_agents, run_result>>
    /\ UNCHANGED deployVars /\ UNCHANGED simVars
    /\ UNCHANGED stakeConsts /\ UNCHANGED swarmAux /\ UNCHANGED killAux
    /\ UNCHANGED signals /\ UNCHANGED reportAux

\* __deployer = deployer_class(**__deployer_init_args)
Construct ==
    /\ cmd = "deploy" /\ pc = "construct"
    /\ deployer' = [deployer EXCEPT ![cur] = NewDeployer(cur, deployer_init_args)]
    /\ calls' = Append(calls, Call("construct", cur, TRUE))
    /\ pc' = IF force THEN "arm" ELSE "confirm_arm"
    /\ UNCHANGED <<cmd, exited, idx, cur, secret, secret_confirmation,
                   deployer_init_args, last_arm, sim_agents, run_result>>
    /\ UNCHANGED deployVars /\ UNCHANGED simVars
    /\ UNCHANGED stakeConsts /\ UNCHANGED swarmAux /\ UNCHANGED killAux
    /\ UNCHANGED signals /\ UNCHANGED reportAux

\* if not force: click.confirm("Arm ...?", abort=True)
ConfirmArm ==
    /\ cmd = "deploy" /\ pc = "confirm_arm"
    /\ \E yes \in BOOLEAN :
         IF yes THEN pc' = "arm" /\ UNCHANGED exited ELSE Exit("Abort")
    /\ UNCHANGED <<cmd, idx, cur, secret, secret_confirmation, deployer_init_args,
                   deployer, last_arm, calls, sim_agents, run_result>>
    /\ UNCHANGED deployVars /\ UNCHANGED simVars
    /\ UNCHANGED stakeConsts /\ UNCHANGED swarmAux /\ UNCHANGED killAux
    /\ UNCHANGED signals /\ UNCHANGED reportAux

\* is_armed, disqualifications = __deployer.arm(abort=False)
\* if not is_armed: ... raise click.Abort()
Arm ==
    /\ cmd = "deploy" /\ pc = "arm"
    /\ \E addressSet \in BOOLEAN :
         LET disq == Disqualifications(deployer[cur], addressSet)
             is_armed == disq = {}
             next == AfterArm(is_armed, force)
         IN  /\ deployer' = [deployer EXCEPT ![cur].state = ArmedState(disq)]
             /\ last_arm' = is_armed
             /\ calls' = Append(calls, Call("arm", cur, is_armed))
             /\ IF next = "abort"
                THEN /\ Exit("Abort")
                     /\ failure_message' = [unit |-> cur, reason |-> disq]
                ELSE /\ pc' = IF force THEN "deploy" ELSE "confirm_deploy"
                     /\ UNCHANGED <<exited, failure_message>>
    /\ UNCHANGED <<cmd, idx, cur, secret, secret_confirmation, deployer_init_args,
                   sim_agents, run_result>>
    /\ UNCHANGED deployVars /\ UNCHANGED simVars
    /\ UNCHANGED stakeConsts /\ UNCHANGED swarmAux /\ UNCHANGED killAux
    /\ UNCHANGED signals /\ UNCHANGED reported

\* if not force: click.confirm("Deploy ...?", abort=True)
ConfirmDeploy ==
    /\ cmd = "deploy" /\ pc = "confirm_deploy"
    /\ \E yes \in BOOLEAN :
         IF yes THEN pc' = "deploy" /\ UNCHANGED exited ELSE Exit("Abort")
    /\ UNCHANGED <<cmd, idx, cur, secret, secret_confirmation, deployer_init_args,
                   deployer, last_arm, calls, sim_agents, run_result>>
    /\ UNCHANGED deployVars /\ UNCHANGED simVars
    /\ UNCHANGED stakeConsts /\ UNCHANGED swarmAux /\ UNCHANGED killAux
    /\ UNCHANGED signals /\ UNCHANGED reportAux

\* Deployer.deploy(): valid only from ARMED; the ledger call succeeds or fails
DeployOutcomes(d) == IF d.state = "ARMED" THEN BOOLEAN ELSE {FALSE}

DeployedState(d, ok) ==
    IF d.state # "ARMED" THEN d.state
    ELSE IF ok THEN "DEPLOYED" ELSE "DEPLOY_FAILED"

\* the exception deploy() raises: it carries the unit name and the cause
DeployFailure(u, d) ==
    [unit |-> u,
     reason |-> {IF d.state = "ARMED" THEN "DeployTransactionError"
                 ELSE "InvalidStateError"}]

\* __transactions = __deployer.deploy()
\* __deployment_transactions[__contract_name] = __transactions
Deploy ==
    /\ cmd = "deploy" /\ pc = "deploy"
    /\ \E ok \in DeployOutcomes(deployer[cur]) :
         /\ deployer' = [deployer EXCEPT ![cur].state = DeployedState(deployer[cur], ok)]
         /\ calls' = Append(calls, Call("deploy", cur, ok))
         /\ deployment_transactions' =
               TransactionsAfterDeploy(deployment_transactions, cur, ok)
         /\ IF ok THEN pc' = "make_agent" /\ UNCHANGED <<exited, failure_message>>
                  ELSE /\ Exit("DeployError")
                       /\ failure_message' = DeployFailure(cur, deployer[cur])
    /\ UNCHANGED <<cmd, idx, cur, secret, secret_confirmation, deployer_init_args,
                   last_arm, sim_agents, run_result>>
    /\ UNCHANGED <<force, contract_name, deployment_agents>> /\ UNCHANGED simVars
    /\ UNCHANGED stakeConsts /\ UNCHANGED swarmAux /\ UNCHANGED killAux
    /\ UNCHANGED signals /\ UNCHANGED reported

\* __agent = __deployer.make_agent(); __deployment_agents[agent_name] = __agent
\* return; then the next deployer of the loop, or the end of the deployment
MakeAgent ==
    /\ cmd = "deploy" /\ pc = "make_agent"
    /\ deployer[cur].state = "DEPLOYED"
    /\ calls' = Append(calls, Call("make_agent", cur, TRUE))
    /\ deployment_agents' = RegisterAgent(deployment_agents, cur, AgentOf(cur))
    /\ IF idx < Len(Plan(contract_name))
       THEN /\ idx' = idx + 1
            /\ cur' = Plan(contract_name)[idx + 1]
            /\ pc' = "init_args"
       ELSE pc' = "view" /\ UNCHANGED <<idx, cur>>
    /\ UNCHANGED <<cmd, exited, secret, secret_confirmation, deployer_init_args,
                   deployer, last_arm, sim_agents, run_result>>
    /\ UNCHANGED <<force, contract_name, deployment_transactions>>
    /\ UNCHANGED simVars
    /\ UNCHANGED stakeConsts /\ UNCHANGED swarmAux /\ UNCHANGED killAux
    /\ UNCHANGED signals /\ UNCHANGED reportAux

\* if not force and click.prompt("View deployment transaction hashes?"): echo
ViewTransactions ==
    /\ cmd = "deploy" /\ pc = "view"
    /\ \E answer \in BOOLEAN :
         reported' = IF Shown(force, answer)
                     THEN reported \cup Recorded(deployment_transactions)
                     ELSE reported
    /\ pc' = "save"
    /\ UNCHANGED <<cmd, exited, idx, cur, secret, secret_confirmation,
                   deployer_init_args, deployer, last_arm, calls, sim_agents,
                   run_result>>
    /\ UNCHANGED deployVars /\ UNCHANGED simVars
    /\ UNCHANGED stakeConsts /\ UNCHANGED swarmAux /\ UNCHANGED killAux
    /\ UNCHANGED signals /\ UNCHANGED failure_message

\* if not force and click.confirm("Save transaction hashes to JSON file?"): write
SaveTransactions ==
    /\ cmd = "deploy" /\ pc = "save"
    /\ \E answer \in BOOLEAN :
         reported' = IF Shown(force, answer)
                     THEN reported \cup Recorded(deployment_transactions)
                     ELSE reported
    /\ Exit("ok")
    /\ UNCHANGED <<cmd, idx, cur, secret, secret_confirmation, deployer_init_args,
                   deployer, last_arm, calls, sim_agents, run_result>>
    /\ UNCHANGED deployVars /\ UNCHANGED simVars
    /\ UNCHANGED stakeConsts /\ UNCHANGED swarmAux /\ UNCHANGED killAux
    /\ UNCHANGED signals /\ UNCHANGED failure_message

----------------------------------------------------------------------------
(* The simulate start command *)

\* the Deployers lines 618-638 build, in program order
SimUnits == <<"NucypherToken", "MinerEscrow", "PolicyManager">>
DISPATCHER_SECRET_LENGTH == 32

\* constants.NO_SIMULATION_RUNNING: a value that is no list of processes
\* (process ids are positive)
NO_SIMULATION_RUNNING == <<0>>

Range(q) == {q[i] : i \in 1..Len(q)}

RECURSIVE KeepEven(_)
\* what `for process in L: L.remove(process)` leaves in L: the list iterator
\* advances by index over the shrinking list, so it visits the 1st, 3rd, ...
\* element and the 2nd, 4th, ... stay
KeepEven(q) ==
    IF Len(q) < 2 THEN <<>> ELSE <<q[2]>> \o KeepEven(SubSeq(q, 3, Len(q)))

SetMax(S) == CHOOSE m \in S : \A x \in S : x <= m

\* the pid the operating system gives the next spawned process: one that no
\* process had before
NewPid == SetMax(Range(prev) \cup Range(spawned) \cup {0}) + 1

\* start_port, counter = 8787, 0
StartPort == 8787

PortOfMutFixed(i) == StartPort

\* enumerate(sim_addresses, start=start_port): the number paired with the
\* element at offset i (from 0)
PortOf(i) == StartPort + i

\* sim_db_name = 'sim-{}'.format(sim_port_number)
DbName(port) == "sim-" \o ToString(port)

randintMutWide(a, b) == a..(b + 1)

\* random.randint(a, b): any integer N with a <= N <= b; ValueError when there
\* is none
randint(a, b) == a..b

NoStake == [value |-> 0, periods |-> 0]

\* os.kill(process.pid, 9)
KillSignal(p) == 9

\* one os.kill call: the target, the signal, and whether the target still ran
Signal(p, running) == [pid |-> p, sig |-> KillSignal(p), running |-> running]

\* accounts of TesterBlockchain(test_accounts=nodes): origin, *everyone_else
Accounts(n) == [i \in 1..n |-> "account" \o ToString(i)]

Tail2(q) == IF Len(q) = 0 THEN <<>> ELSE Tail(q)

simOnly == <<force, contract_name, deployment_transactions, deployment_agents,
             secret, secret_confirmation, deployer_init_args, last_arm>>

\* lines 576-581: the list of tracked processes at start-up
SimKillPrevious ==
    /\ cmd = "simulate" /\ pc = "sim_start"
    /\ IF sim_processes = NO_SIMULATION_RUNNING
       THEN sim_processes' = <<>> /\ pc' = "sim_connect" /\ UNCHANGED kill_idx
       ELSE IF Len(sim_processes) # 0
       THEN pc' = "kill_previous" /\ kill_idx' = 1 /\ UNCHANGED sim_processes
       ELSE pc' = "sim_connect" /\ UNCHANGED <<sim_processes, kill_idx>>
    /\ UNCHANGED <<cmd, exited, idx, cur, deployer, calls, sim_agents, run_result,
                   federated_only, nodes, alive, spawned, prev_killed,
                   everyone_else, registry_file, commits, prev>>
    /\ UNCHANGED simOnly
    /\ UNCHANGED stakeConsts /\ UNCHANGED swarmAux /\ UNCHANGED killAux
    /\ UNCHANGED signals /\ UNCHANGED reportAux

\* list.remove(x): the list without its first x
RECURSIVE Remove(_, _)
Remove(q, x) ==
    IF q = <<>> THEN <<>>
    ELSE IF Head(q) = x THEN Tail(q) ELSE <<Head(q)>> \o Remove(Tail(q), x)

\* for process in config.sim_processes: config.sim_processes.remove(process)
\* kill_idx is the position the list iterator reads next
KillPreviousNext ==
    /\ cmd = "simulate" /\ pc = "kill_previous"
    /\ IF kill_idx <= Len(sim_processes)
       THEN /\ process' = sim_processes[kill_idx]
            /\ sim_processes' = Remove(sim_processes, sim_processes[kill_idx])
            /\ kill_idx' = kill_idx + 1
            /\ pc' = "kill_previous_kill"
       ELSE /\ pc' = "sim_connect"
            /\ UNCHANGED <<process, sim_processes, kill_idx>>
    /\ UNCHANGED <<cmd, exited, idx, cur, deployer, calls, sim_agents, run_result,
                   federated_only, nodes, alive, spawned, prev_killed,
                   everyone_else, registry_file, commits, prev>>
    /\ UNCHANGED simOnly
    /\ UNCHANGED stakeConsts /\ UNCHANGED swarmAux /\ UNCHANGED <<prev_alive, starts>>
    /\ UNCHANGED signals /\ UNCHANGED reportAux

\* os.kill(process.pid, 9) of the start-up clean-up
KillPreviousKill ==
    /\ cmd = "simulate" /\ pc = "kill_previous_kill"
    /\ \E reaped \in BOOLEAN :
         IF process \notin alive /\ reaped
         THEN /\ Exit("ProcessLookupError")
              /\ UNCHANGED <<alive, signals, prev_killed>>
         ELSE /\ alive' = alive \ {process}
              /\ signals' = Append(signals, Signal(process, process \in alive))
              /\ prev_killed' = prev_killed \cup {process}
              /\ pc' = "kill_previous"
              /\ UNCHANGED exited
    /\ UNCHANGED <<cmd, idx, cur, deployer, calls, sim_agents, run_result,
                   federated_only, nodes, sim_processes, spawned,
                   everyone_else, registry_file, commits, kill_idx, prev>>
    /\ UNCHANGED simOnly
    /\ UNCHANGED stakeConsts /\ UNCHANGED swarmAux /\ UNCHANGED killAux
    /\ UNCHANGED reportAux

\* lines 583-615: provider check, test accounts, confirmation of the deployment
SimConnect ==
    /\ cmd = "simulate" /\ pc = "sim_connect"
    /\ IF federated_only
       THEN pc' = "swarm" /\ idx' = 1 /\ UNCHANGED <<exited, everyone_else, cur>>
       ELSE \E supported \in BOOLEAN, yes \in BOOLEAN :
              IF ~supported THEN Exit("Abort") /\ UNCHANGED <<everyone_else, idx, cur>>
              ELSE IF nodes = 0
                   THEN Exit("ValueError") /\ UNCHANGED <<everyone_else, idx, cur>>
              ELSE /\ everyone_else' = Tail2(Accounts(nodes))
                   /\ IF yes
                      THEN /\ pc' = "sim_construct" /\ idx' = 1
                           /\ cur' = SimUnits[1]
                           /\ UNCHANGED exited
                      ELSE Exit("Abort") /\ UNCHANGED <<idx, cur>>
    /\ UNCHANGED <<cmd, deployer, calls, sim_agents, run_result, federated_only,
                   nodes, sim_processes, alive, spawned, prev_killed, registry_file,
                   commits, kill_idx, prev>>
    /\ UNCHANGED simOnly
    /\ UNCHANGED stakeConsts /\ UNCHANGED swarmAux /\ UNCHANGED killAux
    /\ UNCHANGED signals /\ UNCHANGED reportAux

\* the agent handed to the Deployer of a unit: sim_token_agent for MinerEscrow,
\* sim_miner_agent for PolicyManager
SimDependency(u) ==
    IF DeployerInfo(u).dependant = None THEN None
    ELSE sim_agents[DeployerInfo(u).dependant]

\* XDeployer(..., deployer_address=origin, secret_hash=os.urandom(...))
SimConstruct ==
    /\ cmd = "simulate" /\ pc = "sim_construct"
    /\ \E s \in urandom(DISPATCHER_SECRET_LENGTH) :
         deployer' = [deployer EXCEPT ![cur] =
             NewDeployer(cur, [dependency |-> SimDependency(cur),
                               secret_hash |-> IF DeployerInfo(cur).upgradeable
                                               THEN s ELSE NoSecret])]
    /\ calls' = Append(calls, Call("construct", cur, TRUE))
    /\ pc' = "sim_arm"
    /\ UNCHANGED <<cmd, exited, idx, cur, sim_agents, run_result>>
    /\ UNCHANGED simVars /\ UNCHANGED simOnly
    /\ UNCHANGED stakeConsts /\ UNCHANGED swarmAux /\ UNCHANGED killAux
    /\ UNCHANGED signals /\ UNCHANGED reportAux

\* x_deployer.arm(): the returned pair is discarded
SimArm ==
    /\ cmd = "simulate" /\ pc = "sim_arm"
    /\ \E addressSet \in BOOLEAN :
         LET disq == Disqualifications(deployer[cur], addressSet)
         IN  /\ deployer' = [deployer EXCEPT ![cur].state = ArmedState(disq)]
             /\ calls' = Append(calls, Call("arm", cur, disq = {}))
    /\ pc' = "sim_deploy"
    /\ UNCHANGED <<cmd, exited, idx, cur, sim_agents, run_result>>
    /\ UNCHANGED simVars /\ UNCHANGED simOnly
    /\ UNCHANGED stakeConsts /\ UNCHANGED swarmAux /\ UNCHANGED killAux
    /\ UNCHANGED signals /\ UNCHANGED reportAux

\* x_deployer.deploy()
SimDeploy ==
    /\ cmd = "simulate" /\ pc = "sim_deploy"
    /\ \E ok \in DeployOutcomes(deployer[cur]) :
         /\ deployer' = [deployer EXCEPT ![cur].state = DeployedState(deployer[cur], ok)]
         /\ calls' = Append(calls, Call("deploy", cur, ok))
         /\ IF ok THEN pc' = "sim_make_agent" /\ UNCHANGED exited
                  ELSE Exit("DeployError")
    /\ UNCHANGED <<cmd, idx, cur, sim_agents, run_result>>
    /\ UNCHANGED simVars /\ UNCHANGED simOnly
    /\ UNCHANGED stakeConsts /\ UNCHANGED swarmAux /\ UNCHANGED killAux
    /\ UNCHANGED signals /\ UNCHANGED reportAux

SimLastUnitMutFirst(i) == i >= 1

\* the statements after the i-th make_agent: the next Deployer up to the third
\* (line 638), then the airdrop and the commit
SimLastUnit(i) == i >= Len(SimUnits)

\* sim_x_agent = x_deployer.make_agent(); then the next Deployer, or the
\* token airdrop and registry.commit(filepath=...)
SimMakeAgent ==
    /\ cmd = "simulate" /\ pc = "sim_make_agent"
    /\ deployer[cur].state = "DEPLOYED"
    /\ calls' = Append(calls, Call("make_agent", cur, TRUE))
    /\ sim_agents' = RegisterAgent(sim_agents, cur, AgentOf(cur))
    /\ IF ~SimLastUnit(idx)
       THEN /\ idx' = idx + 1 /\ cur' = SimUnits[idx + 1]
            /\ pc' = "sim_construct"
            /\ UNCHANGED <<registry_file, commits>>
       ELSE /\ registry_file' = TRUE
            /\ commits' = commits + 1
            /\ pc' = "swarm" /\ idx' = 1
            /\ UNCHANGED cur
    /\ UNCHANGED <<cmd, exited, deployer, run_result, federated_only, nodes,
                   sim_processes, alive, spawned, prev_killed, everyone_else,
                   kill_idx, prev>>
    /\ UNCHANGED simOnly
    /\ UNCHANGED stakeConsts /\ UNCHANGED swarmAux /\ UNCHANGED killAux
    /\ UNCHANGED signals /\ UNCHANGED reportAux

\* for sim_port_number, sim_address in enumerate(sim_addresses, start=start_port)
\* with sim_addresses = NotImplemented when federated: enumerate raises TypeError
SwarmFederated ==
    /\ cmd = "simulate" /\ pc = "swarm" /\ federated_only
    /\ Exit("TypeError")
    /\ UNCHANGED <<cmd, idx, cur, deployer, calls, sim_agents, run_result>>
    /\ UNCHANGED simVars /\ UNCHANGED simOnly
    /\ UNCHANGED stakeConsts /\ UNCHANGED swarmAux /\ UNCHANGED killAux
    /\ UNCHANGED signals /\ UNCHANGED reportAux

\* one iteration of the swarm loop: reactor.spawnProcess(...) and
\* config.sim_processes.append(ursula_process)
Spawn ==
    /\ cmd = "simulate" /\ pc = "swarm" /\ ~federated_only
    /\ idx <= Len(everyone_else)
    /\ LET sim_port_number == PortOf(idx - 1)
           sim_address == everyone_else[idx]
           sim_db_name == DbName(sim_port_number)
           values == randint(min_stake, balance)
           periods == randint(min_locktime, max_locktime)
       IN  IF values = {} \/ periods = {}
           THEN /\ Exit("ValueError")
                /\ UNCHANGED <<sim_processes, spawned, alive, idx, spawn_log, stake>>
           ELSE \E value \in values, period \in periods, ok \in BOOLEAN :
                  /\ stake' = [value |-> value, periods |-> period]
                  /\ spawn_log' = Append(spawn_log,
                         [port |-> sim_port_number, db_name |-> sim_db_name,
                          address |-> sim_address, ok |-> ok])
                  /\ IF ok
                     THEN /\ sim_processes' = Append(sim_processes, NewPid)
                          /\ spawned' = Append(spawned, NewPid)
                          /\ alive' = alive \cup {NewPid}
                          /\ idx' = idx + 1
                          /\ UNCHANGED <<pc, exited>>
                     ELSE /\ Exit("SpawnError")
                          /\ UNCHANGED <<sim_processes, spawned, alive, idx>>
    /\ UNCHANGED <<cmd, cur, deployer, calls, sim_agents, run_result, federated_only,
                   nodes, prev_killed, everyone_else, registry_file, commits,
                   kill_idx, prev>>
    /\ UNCHANGED simOnly
    /\ UNCHANGED stakeConsts /\ UNCHANGED killAux /\ UNCHANGED signals /\ UNCHANGED reportAux

\* the loop is exhausted: click.confirm("Start the reactor?", abort=True)
ConfirmReactor ==
    /\ cmd = "simulate" /\ pc = "swarm" /\ ~federated_only
    /\ idx > Len(everyone_else)
    /\ \E yes \in BOOLEAN :
         IF yes THEN pc' = "reactor" /\ UNCHANGED exited ELSE Exit("Abort")
    /\ UNCHANGED <<cmd, idx, cur, deployer, calls, sim_agents, run_result>>
    /\ UNCHANGED simVars /\ UNCHANGED simOnly
    /\ UNCHANGED stakeConsts /\ UNCHANGED swarmAux /\ UNCHANGED killAux
    /\ UNCHANGED signals /\ UNCHANGED reportAux

\* a worker process ends on its own accord
ProcessExits ==
    /\ cmd = "simulate" /\ exited = "no"
    /\ \E p \in alive : alive' = alive \ {p}
    /\ UNCHANGED <<cmd, pc, exited, idx, cur, deployer, calls, sim_agents, run_result,
                   federated_only, nodes, sim_processes, spawned, prev_killed,
                   everyone_else, registry_file, commits, kill_idx, prev>>
    /\ UNCHANGED simOnly
    /\ UNCHANGED stakeConsts /\ UNCHANGED swarmAux /\ UNCHANGED killAux
    /\ UNCHANGED signals /\ UNCHANGED reportAux

\* try: reactor.run() returns on the stop signal, or raises
ReactorRun ==
    /\ cmd = "simulate" /\ pc = "reactor"
    /\ \E how \in {"stopped", "raised"} : run_result' = how
    /\ pc' = "finally_remove"
    /\ UNCHANGED <<cmd, exited, idx, cur, deployer, calls, sim_agents>>
    /\ UNCHANGED simVars /\ UNCHANGED simOnly
    /\ UNCHANGED stakeConsts /\ UNCHANGED swarmAux /\ UNCHANGED killAux
    /\ UNCHANGED signals /\ UNCHANGED reportAux

\* finally: if not federated_only: os.remove(DEFAULT_SIMULATION_REGISTRY_FILEPATH)
FinallyRemove ==
    /\ cmd = "simulate" /\ pc = "finally_remove"
    /\ registry_file' = IF federated_only THEN registry_file ELSE FALSE
    /\ pc' = "finally_kill" /\ kill_idx' = 1
    /\ UNCHANGED <<cmd, exited, idx, cur, deployer, calls, sim_agents, run_result,
                   federated_only, nodes, sim_processes, alive, spawned, prev_killed,
                   everyone_else, commits, prev>>
    /\ UNCHANGED simOnly
    /\ UNCHANGED stakeConsts /\ UNCHANGED swarmAux /\ UNCHANGED killAux
    /\ UNCHANGED signals /\ UNCHANGED reportAux

\* for process in config.sim_processes: os.kill(process.pid, 9)
\* os.kill of a process that has ended and has been reaped raises
\* ProcessLookupError; one that has ended and is not reaped yet takes the signal
FinallyKill ==
    /\ cmd = "simulate" /\ pc = "finally_kill"
    /\ kill_idx <= Len(sim_processes)
    /\ LET p == sim_processes[kill_idx]
       IN  \E reaped \in BOOLEAN :
             IF p \notin alive /\ reaped
             THEN Exit("ProcessLookupError") /\ UNCHANGED <<alive, kill_idx, signals>>
             ELSE /\ alive' = alive \ {p}
                  /\ signals' = Append(signals, Signal(p, p \in alive))
                  /\ kill_idx' = kill_idx + 1
                  /\ UNCHANGED <<pc, exited>>
    /\ UNCHANGED <<cmd, idx, cur, deployer, calls, sim_agents, run_result,
                   federated_only, nodes, sim_processes, spawned, prev_killed,
                   everyone_else, registry_file, commits, prev>>
    /\ UNCHANGED simOnly
    /\ UNCHANGED stakeConsts /\ UNCHANGED swarmAux /\ UNCHANGED killAux /\ UNCHANGED reportAux

\* the teardown loop is exhausted: "Simulation Stopped"; the command returns,
\* or the exception of reactor.run() propagates
FinallyDone ==
    /\ cmd = "simulate" /\ pc = "finally_kill"
    /\ kill_idx > Len(sim_processes)
    /\ pc' = "exit"
    /\ exited' = IF run_result = "stopped" THEN "ok" ELSE "ReactorError"
    /\ UNCHANGED <<cmd, idx, cur, deployer, calls, sim_agents, run_result>>
    /\ UNCHANGED simVars /\ UNCHANGED simOnly
    /\ UNCHANGED stakeConsts /\ UNCHANGED swarmAux /\ UNCHANGED killAux
    /\ UNCHANGED signals /\ UNCHANGED reportAux

\* simulate stop: for process in config.ursula_processes; the config object
\* has no attribute of that name
SimStop ==
    /\ cmd = "stop" /\ pc = "stop"
    /\ Exit("AttributeError")
    /\ UNCHANGED <<cmd, idx, cur, deployer, calls, sim_agents, run_result>>
    /\ UNCHANGED simVars /\ UNCHANGED simOnly
    /\ UNCHANGED stakeConsts /\ UNCHANGED swarmAux /\ UNCHANGED killAux
    /\ UNCHANGED signals /\ UNCHANGED reportAux

----------------------------------------------------------------------------
(* The program *)

NoAgents == [a \in AgentNames |-> None]

InitCommon ==
    /\ exited = "no"
    /\ idx = 0
    /\ cur = None
    /\ secret = NoSecret
    /\ secret_confirmation = NoSecret
    /\ deployer_init_args = NoArgs
    /\ deployer = [u \in Units |-> NoDeployer]
    /\ deployment_transactions = [u \in Units |-> None]
    /\ deployment_agents = NoAgents
    /\ sim_agents = NoAgents
    /\ last_arm = FALSE
    /\ calls = <<>>
    /\ spawned = <<>>
    /\ prev_killed = {}
    /\ everyone_else = <<>>
    /\ registry_file = FALSE
    /\ commits = 0
    /\ kill_idx = 0
    /\ run_result = None
    /\ spawn_log = <<>>
    /\ stake = NoStake
    /\ signals = <<>>
    /\ process = 0
    /\ prev_alive = {}
    /\ starts = 1
    /\ reported = {}
    /\ failure_message = NoFailure

Init ==
    /\ InitCommon
    /\ cmd \in {"deploy", "simulate", "stop"}
    /\ IF cmd = "simulate"
       THEN /\ pc = "sim_start"
            /\ force = FALSE /\ contract_name = None
            /\ federated_only \in BOOLEAN
            /\ nodes \in 0..MaxNodes
            /\ min_stake \in StakeValues /\ balance \in StakeValues
            /\ min_locktime \in StakeValues /\ max_locktime \in StakeValues
       ELSE /\ pc = IF cmd = "deploy" THEN "get_deployers" ELSE "stop"
            /\ force \in (IF cmd = "deploy" THEN BOOLEAN ELSE {FALSE})
            /\ contract_name \in (IF cmd = "deploy" THEN ContractNames ELSE {None})
            /\ federated_only = FALSE /\ nodes = 0
            /\ min_stake = MaxStake /\ balance = MaxStake
            /\ min_locktime = MaxStake /\ max_locktime = MaxStake
    /\ sim_processes = NO_SIMULATION_RUNNING
    /\ prev = <<>>
    /\ alive = Range(prev)

\* the command simulate start is invoked again on the same config object: the
\* list config.sim_processes and the processes are as the last run left them
Restart ==
    /\ cmd = "simulate" /\ pc = "exit" /\ starts < MaxStarts
    /\ pc' = "sim_start" /\ exited' = "no"
    /\ starts' = starts + 1
    /\ federated_only' \in BOOLEAN
    /\ nodes' \in 0..MaxNodes
    /\ prev' = sim_processes
    /\ prev_alive' = alive \cap Range(sim_processes)
    /\ idx' = 0 /\ cur' = None
    /\ deployer' = [u \in Units |-> NoDeployer]
    /\ sim_agents' = NoAgents
    /\ calls' = <<>> /\ spawned' = <<>> /\ prev_killed' = {}
    /\ everyone_else' = <<>> /\ commits' = 0 /\ kill_idx' = 0
    /\ run_result' = None /\ spawn_log' = <<>> /\ stake' = NoStake
    /\ signals' = <<>> /\ process' = 0
    /\ UNCHANGED <<cmd, sim_processes, alive, registry_file>>
    /\ UNCHANGED simOnly /\ UNCHANGED stakeConsts /\ UNCHANGED reportAux

Next ==
    \/ GetDeployers \/ Dispatch \/ InitArgs \/ CollectSecret \/ Construct
    \/ ConfirmArm \/ Arm \/ ConfirmDeploy \/ Deploy \/ MakeAgent
    \/ ViewTransactions \/ SaveTransactions
    \/ SimKillPrevious \/ SimConnect \/ SimConstruct \/ SimArm \/ SimDeploy
    \/ SimMakeAgent \/ SwarmFederated \/ Spawn \/ ConfirmReactor \/ ProcessExits
    \/ ReactorRun \/ FinallyRemove \/ FinallyKill \/ FinallyDone \/ SimStop

Spec == Init /\ [][Next]_vars

\* the program when the config object outlives one simulate start command
NextRestart == Next \/ Restart \/ KillPreviousNext \/ KillPreviousKill

SpecRestart == Init /\ [][NextRestart]_vars

----------------------------------------------------------------------------
(* Properties *)

CallIdx == 1..Len(calls)

\* a call op on unit u with outcome ok was made before the i-th call
CalledBefore(i, op, u, ok) == \E j \in 1..(i - 1) : calls[j] = Call(op, u, ok)

\* the unit a unit depends on
DependencyOf(u) == UnitOfAgent(DeployerInfo(u).dependant)

HasDependency(u) == DeployerInfo(u).dependant # None

\* the units handed to __deploy_contract so far, in order
RECURSIVE UnitsOf(_, _)
UnitsOf(q, op) ==
    IF q = <<>> THEN <<>>
    ELSE (IF Head(q).op = op THEN <<Head(q).unit>> ELSE <<>>) \o UnitsOf(Tail(q), op)

ChainOrder == <<"NucypherToken", "MinerEscrow", "PolicyManager">>

\* C1: in the deploy command (all units or a single one) every arm call on a
\* unit with a dependency comes after the successful deploy of that dependency
\* and after its agent was registered, and every Deployer of such a unit holds
\* exactly the handle registered under the dependency's agent_name.
C1_DependencyDeployedBeforeArm ==
    cmd = "deploy" =>
      /\ \A i \in CallIdx :
           (calls[i].op = "arm" /\ HasDependency(calls[i].unit)) =>
             /\ CalledBefore(i, "deploy", DependencyOf(calls[i].unit), TRUE)
             /\ CalledBefore(i, "make_agent", DependencyOf(calls[i].unit), TRUE)
      /\ \A u \in Units :
           (deployer[u].state # "NONE" /\ HasDependency(u)) =>
             /\ deployment_agents[DeployerInfo(u).dependant] = AgentOf(DependencyOf(u))
             /\ deployer[u].dependency = deployment_agents[DeployerInfo(u).dependant]

C1_Witness ==
    /\ cmd = "deploy"
    /\ \E i \in CallIdx : calls[i] = Call("arm", "MinerEscrow", TRUE)
    /\ deployer["MinerEscrow"].dependency = AgentOf("NucypherToken")

\* C2: deploy-all hands the units to __deploy_contract in the order
\* NucypherToken, MinerEscrow, PolicyManager: at every moment the units
\* processed so far are a duplicate-free prefix of that chain, each unit comes
\* after the unit it depends on, and a run that ends normally has processed
\* all three.
C2_DeployAllOrder ==
    (cmd = "deploy" /\ contract_name = None) =>
      LET order == UnitsOf(calls, "begin")
      IN  /\ Len(order) <= Len(ChainOrder)
          /\ \A i \in 1..Len(order) : order[i] = ChainOrder[i]
          /\ \A i \in 1..Len(order) :
               HasDependency(order[i]) =>
                 \E j \in 1..(i - 1) : order[j] = DependencyOf(order[i])
          /\ exited = "ok" => order = ChainOrder

C2_Witness ==
    /\ cmd = "deploy" /\ contract_name = None /\ exited = "ok"
    /\ UnitsOf(calls, "begin") = ChainOrder

\* C3: fail-fast: in the deploy command a failed arm (is_armed = false) or a
\* failed deploy is the last call ever made on any Deployer, and the command
\* has ended with it: nothing is constructed, armed or deployed afterwards.
C3_FailFast ==
    cmd = "deploy" =>
      \A i \in CallIdx :
        (calls[i].op \in {"arm", "deploy"} /\ ~calls[i].ok) =>
          /\ i = Len(calls)
          /\ exited \in {"Abort", "DeployError"}

C3_Witness ==
    /\ cmd = "deploy" /\ contract_name = None
    /\ Len(calls) > 0
    /\ calls[Len(calls)] = Call("deploy", "MinerEscrow", FALSE)
    /\ deployer["PolicyManager"].state = "NONE"
    /\ exited = "DeployError"

\* the step in which the arm or the deploy of the current unit fails
FailingStep ==
    /\ cmd = "deploy" /\ pc \in {"arm", "deploy"}
    /\ exited = "no" /\ exited' \in {"Abort", "DeployError"}

\* C4: no rollback: the step in which an arm or a deploy fails leaves the
\* transaction records and the agent handles exactly as they were (nothing of
\* an earlier unit is removed or overwritten, nothing is added for the failing
\* unit), and no step ever removes or overwrites a record or handle.
C4_NoRollback ==
    [][ /\ FailingStep =>
             /\ deployment_transactions' = deployment_transactions
             /\ deployment_agents' = deployment_agents
             /\ deployment_transactions[cur] = None
             /\ deployment_agents[DeployerInfo(cur).agent_name] = None
        /\ \A u \in Units :
             deployment_transactions[u] # None =>
               deployment_transactions'[u] = deployment_transactions[u]
        /\ \A a \in AgentNames :
             deployment_agents[a] # None => deployment_agents'[a] = deployment_agents[a]
      ]_vars

C4_Witness ==
    /\ cmd = "deploy" /\ exited = "DeployError" /\ cur = "MinerEscrow"
    /\ deployment_transactions["NucypherToken"] = TransactionsOf("NucypherToken")
    /\ deployment_agents["token_agent"] = AgentOf("NucypherToken")
    /\ deployment_transactions["MinerEscrow"] = None
    /\ deployment_agents["miner_agent"] = None

\* the latest arm call on unit u before the i-th call returned is_armed = true
ArmedBefore(i, u) ==
    \E j \in 1..(i - 1) :
      /\ calls[j] = Call("arm", u, TRUE)
      /\ \A k \in (j + 1)..(i - 1) : ~(calls[k].op = "arm" /\ calls[k].unit = u)

C6_ValidSecretOnly ==
    cmd = "deploy" =>
      /\ (/\ pc \in {"construct", "confirm_arm", "arm", "confirm_deploy", "deploy",
                     "make_agent"}
          /\ DeployerInfo(cur).upgradeable)
           => /\ deployer_init_args.secret_hash = secret
              /\ ValidCommitment(secret, secret_confirmation)
      /\ \A u \in Units :
           (deployer[u].upgradeable /\ deployer[u].state # "NONE") =>
             deployer[u].secret_hash.len = 32

C6_Witness ==
    /\ cmd = "deploy"
    /\ deployer["MinerEscrow"].state = "ARMED"
    /\ deployer["MinerEscrow"].secret_hash = secret
    /\ ValidCommitment(secret, secret_confirmation)

\* C7: deploy-single of a unit with a dependency finds no handle of the
\* dependency in the registry: it ends with the KeyError of the lookup before
\* any Deployer is constructed, armed or deployed, and nothing is recorded;
\* deploy-single never touches another unit than the one named; and whenever
\* a unit's step completes, in either mode, it leaves that unit's transactions
\* and agent under the unit's own keys.
C7_DeploySingle ==
    cmd = "deploy" =>
      /\ (contract_name \in Units /\ HasDependency(contract_name)) =>
           /\ \A i \in CallIdx : calls[i] = Call("begin", contract_name, TRUE)
           /\ \A u \in Units : deployer[u].state = "NONE"
           /\ deployment_transactions = [u \in Units |-> None]
           /\ deployment_agents = NoAgents
           /\ (pc = "exit" /\ calls # <<>>) => exited = "KeyError"
      /\ contract_name \in Units =>
           \A i \in CallIdx : calls[i].unit = contract_name
      /\ \A i \in CallIdx :
           calls[i].op = "make_agent" =>
             /\ deployment_transactions[calls[i].unit] = TransactionsOf(calls[i].unit)
             /\ deployment_agents[DeployerInfo(calls[i].unit).agent_name]
                  = AgentOf(calls[i].unit)

C7_Witness ==
    /\ cmd = "deploy" /\ contract_name = "MinerEscrow"
    /\ exited = "KeyError"
    /\ calls = <<Call("begin", "MinerEscrow", TRUE)>>

\* C8: with or without --force, a unit is deployed only after its arm
\* returned is_armed = true, with the handle of its dependency and, when
\* upgradeable, a 32-byte secret; a failed arm ends the command.
C8_ForceSkipsPromptsOnly ==
    cmd = "deploy" =>
      /\ \A i \in CallIdx :
           calls[i].op = "deploy" =>
             LET u == calls[i].unit
             IN  /\ ArmedBefore(i, u)
                 /\ HasDependency(u) => deployer[u].dependency = AgentOf(DependencyOf(u))
                 /\ DeployerInfo(u).upgradeable => deployer[u].secret_hash.len = 32
      /\ (calls # <<>> /\ calls[Len(calls)].op = "arm" /\ ~calls[Len(calls)].ok)
           => exited = "Abort"

C8_Witness ==
    /\ cmd = "deploy" /\ force
    /\ calls # <<>>
    /\ calls[Len(calls)] = Call("arm", "MinerEscrow", FALSE)
    /\ deployer["MinerEscrow"].state = "ARM_FAILED"
    /\ exited = "Abort"

InStartupCleanup ==
    cmd = "simulate" /\ pc \in {"sim_start", "kill_previous", "kill_previous_kill"}

SwarmLeft == cmd = "simulate" /\ pc \in {"reactor", "finally_remove", "finally_kill", "exit"}

C14_BuildSpecsBothModes ==
    (cmd = "simulate" /\ federated_only /\ pc = "exit") =>
      /\ Len(spawn_log) = nodes
      /\ exited # "TypeError"

EmptyRange == min_stake > balance \/ min_locktime > max_locktime

FailedRun == \E i \in CallIdx : calls[i].op \in {"arm", "deploy"} /\ ~calls[i].ok

\* C16: when a run of the deploy command has failed at a unit, the user has
\* been told the unit and the reason, and the transactions of every unit
\* deployed before have been shown or saved.
C16_FailureReported ==
    (cmd = "deploy" /\ pc = "exit" /\ FailedRun) =>
      /\ failure_message.unit = cur /\ failure_message.reason # {}
      /\ Recorded(deployment_transactions) \subseteq reported

SIGTERM == [name |-> "SIGTERM", number |-> 15]

C21_CollectSecretTerminates ==
    [][(cmd = "deploy" /\ pc = "collect_secret") =>
          \/ /\ pc' = "construct"
             /\ ValidCommitment(secret', secret_confirmation')
             /\ deployer_init_args'.secret_hash = secret'
          \/ pc' = "exit" /\ exited' = "Abort"]_vars

C21_Witness ==
    /\ cmd = "deploy" /\ pc = "construct" /\ cur = "PolicyManager"
    /\ secret.len = SecretLength
    /\ secret_confirmation = secret
    /\ deployer_init_args.secret_hash = secret

CleanupLeavesEveryOther ==
    (cmd = "simulate" /\ starts > 1 /\ pc = "sim_connect") =>
      sim_processes = KeepEven(prev)

\* the spawn calls so far that returned a process
SuccessfulSpawns(log) == {i \in 1..Len(log) : log[i].ok}

\* the statements that assign or mutate config.sim_processes: line 577,
\* line 580 and line 701
MutatesTracked ==
    cmd = "simulate" /\ pc \in {"sim_start", "kill_previous", "swarm"}

====
